---- MODULE Spec2Model ----
(***************************************************************************)
(* Model of the rook package layer of sampctl: Package.Validate,           *)
(* Package.String, PackageFromDep, Package.EnsureDependencies (rook.go)    *)
(* and the interactive Init (initialise.go).                               *)
(*                                                                         *)
(* Strings are sequences of one-character strings, so that formatting,     *)
(* suffix trimming and substring tests are computed and not assumed.  A    *)
(* fixed message of the code is kept as one element of the sequence.       *)
(***************************************************************************)
EXTENDS Naturals, Sequences, FiniteSets

VARIABLES pkg, vendor, pc, idx, err, fetchLog, parseLog, verr, retried, prev, dir, answers

vars == <<pkg, vendor, pc, idx, err, fetchLog, parseLog, verr, retried, prev, dir, answers>>

\* Longest dependency list of a package in the model.
MaxDeps == 3

\* Longest free-text answer to the "enter name for new script" prompt.
MaxLen == 4

----------------------------------------------------------------------------
(* Strings *)

RECURSIVE Flatten(_)
Flatten(ss) == IF ss = <<>> THEN <<>> ELSE Head(ss) \o Flatten(Tail(ss))

\* strings.Contains
Contains(hay, needle) ==
    \E k \in 0..(Len(hay) - Len(needle)) : SubSeq(hay, k + 1, k + Len(needle)) = needle

\* strings.HasSuffix
HasSuffix(s, suffix) ==
    /\ Len(suffix) <= Len(s)
    /\ SubSeq(s, Len(s) - Len(suffix) + 1, Len(s)) = suffix

\* Index of the first occurrence of character c in s, 0 when there is none.
IndexOf(s, c) ==
    IF \E k \in 1..Len(s) : s[k] = c
    THEN CHOOSE k \in 1..Len(s) : s[k] = c /\ \A j \in 1..(k - 1) : s[j] # c
    ELSE 0

\* All strings over alphabet of length at most n.
StringsUpTo(alphabet, n) == UNION {[1..k -> alphabet] : k \in 0..n}

----------------------------------------------------------------------------
(* Errors: nil, or a kind (the return statement that produced it) and the text *)

NoErr == [kind |-> "nil", text |-> <<>>]

NewErr(kind, text) == [kind |-> kind, text |-> text]

----------------------------------------------------------------------------
(* Package.Validate *)

ValidateSkipsEqual(p) ==
    IF p.Entry = <<>> THEN "MissingEntry"
    ELSE IF p.Output = <<>> THEN "MissingOutput"
    ELSE "ok"

Validate(p) ==
    IF p.Entry = <<>> THEN "MissingEntry"
    ELSE IF p.Output = <<>> THEN "MissingOutput"
    ELSE IF p.Entry = p.Output THEN "EntryEqualsOutput"
    ELSE "ok"

----------------------------------------------------------------------------
(* Dependency strings and PackageFromDep *)

DepAB == <<"a", "/", "b">>
DepCD1 == <<"c", "/", "d", "@", "1">>
DepEFp == <<"e", "/", "f", ":", "p">>
DepBad == <<"a", "/">>

DepStrings == {DepAB, DepCD1, DepEFp, DepBad}

NoMeta == [User |-> <<>>, Repo |-> <<>>, Path |-> <<>>, Version |-> <<>>]

\* DependencyString.Explode: owner/repository[:subpath][@version]
ExplodeString(depString) ==
    LET slash == IndexOf(depString, "/")
        user == IF slash = 0 THEN depString ELSE SubSeq(depString, 1, slash - 1)
        rest == IF slash = 0 THEN <<>> ELSE SubSeq(depString, slash + 1, Len(depString))
        at == IndexOf(rest, "@")
        front == IF at = 0 THEN rest ELSE SubSeq(rest, 1, at - 1)
        version == IF at = 0 THEN <<>> ELSE SubSeq(rest, at + 1, Len(rest))
        colon == IndexOf(front, ":")
        repo == IF colon = 0 THEN front ELSE SubSeq(front, 1, colon - 1)
        path == IF colon = 0 THEN <<>> ELSE SubSeq(front, colon + 1, Len(front))
        bad == \/ user = <<>>
               \/ repo = <<>>
               \/ Contains(depString, <<" ">>)
               \/ Contains(depString, <<".", ".">>)
    IN  IF bad
        THEN [dep |-> NoMeta, err |-> NewErr("MalformedReference", <<"dependency string does not match pattern">>)]
        ELSE [dep |-> [User |-> user, Repo |-> repo, Path |-> path, Version |-> version],
              err |-> NoErr]

\* Explode on the dependency strings of the model, evaluated once.
Exploded == [depString \in DepStrings |-> ExplodeString(depString)]

Explode(depString) == Exploded[depString]

PackageFromDep(depString) ==
    LET r == Explode(depString)
    IN  [pkg |-> [User |-> r.dep.User, Repo |-> r.dep.Repo,
                  Path |-> r.dep.Path, Version |-> r.dep.Version],
         err |-> r.err]

StringOmitsRepo(p) == Flatten(<<p.User, <<":">>, p.Version>>)

\* Package.String: "%s/%s:%s"
String(p) == Flatten(<<p.User, <<"/">>, p.Repo, <<":">>, p.Version>>)

----------------------------------------------------------------------------
(* The file system and the fetch-and-checkout capability *)

\* Directories that exist on disk, apart from the vendored copies.
Disk == {"proj"}

\* util.Exists
Exists(path) == path \in Disk

\* filepath.Join(pkg.local, "dependencies")
VendorDir(local) == <<local, "dependencies">>

\* The copy EnsurePackage leaves in vendorDirectory: one directory per
\* repository, holding the version last checked out.
Vendored(vendorDir, dep) ==
    [Dir |-> vendorDir, User |-> dep.User, Repo |-> dep.Repo, Version |-> dep.Version]

\* EnsurePackage(vendorDirectory, pkg): clones or updates the repository and
\* checks the version out (ok), or fails and leaves the directory as it was.
EnsurePackage(vendorDir, dep, ok, vend) ==
    IF ok
    THEN [err |-> NoErr,
          vendor |-> {v \in vend : ~(v.Dir = vendorDir /\ v.User = dep.User /\ v.Repo = dep.Repo)}
                        \cup {Vendored(vendorDir, dep)}]
    ELSE [err |-> NewErr("FetchError", <<"failed to clone or update repository">>),
          vendor |-> vend]

----------------------------------------------------------------------------
(* Package.EnsureDependencies *)

LocalErrNoExists(p) ==
    IF p.Local = ""
    THEN NewErr("NotALocalPackage", <<"package does not represent a locally stored package">>)
    ELSE NoErr

LocalErrValidates(p) ==
    IF Validate(p) # "ok"
    THEN NewErr("ValidationError", <<Validate(p)>>)
    ELSE IF p.Local = ""
    THEN NewErr("NotALocalPackage", <<"package does not represent a locally stored package">>)
    ELSE IF ~Exists(p.Local)
    THEN NewErr("NotALocalPackage", <<"package local path does not exist">>)
    ELSE NoErr

\* The two early returns of EnsureDependencies.
LocalErr(p) ==
    IF p.Local = ""
    THEN NewErr("NotALocalPackage", <<"package does not represent a locally stored package">>)
    ELSE IF ~Exists(p.Local)
    THEN NewErr("NotALocalPackage", <<"package local path does not exist">>)
    ELSE NoErr

InvalidDepErrNamesPackage(depString, cause) ==
    NewErr(cause.kind,
           Flatten(<<<<"package dependency '">>, String(PackageFromDep(depString).pkg),
                     <<"' is invalid: ">>, cause.text>>))

\* errors.Errorf("package dependency '%s' is invalid: %v", depString, err)
InvalidDepErr(depString, cause) ==
    NewErr(cause.kind,
           Flatten(<<<<"package dependency '">>, depString, <<"' is invalid: ">>, cause.text>>))

\* errors.Wrapf(err, "failed to ensure package %s", dep)
EnsureErr(dep, cause) ==
    NewErr(cause.kind,
           Flatten(<<<<"failed to ensure package ">>, String(dep), <<": ">>, cause.text>>))

SkipVisited(dep, log, vend, vendorDir) == \A k \in 1..Len(log) : log[k].dep # dep

SkipVendored(dep, log, vend, vendorDir) == Vendored(vendorDir, dep) \notin vend

\* The loop calls EnsurePackage for every dependency it parsed: no test of the
\* dependencies already ensured or already on disk guards the call.
CallsEnsurePackage(dep, log, vend, vendorDir) == TRUE

AppendsAllDependencies(all, dep) == Append(all, dep)

\* The receiver is a value and the loop assigns no field of it: the list of
\* all dependencies after an iteration is the list before it.
AllDependenciesAfter(all, dep) == all

StaysAtIdx(i) == i

\* for _, depString := range pkg.Dependencies: the next element.
NextIdx(i) == i + 1

\* One call: the checks before the loop.
EnsureDependencies ==
    /\ \/ pc = "idle" /\ retried' = retried /\ prev' = prev
       \/ /\ pc = "done"
          /\ ~retried
          /\ retried' = TRUE
          /\ prev' = [ran |-> TRUE, fetchLog |-> fetchLog, err |-> err, vendor |-> vendor]
    /\ fetchLog' = <<>>
    /\ parseLog' = <<>>
    /\ idx' = 1
    /\ err' = LocalErr(pkg)
    /\ pc' = IF LocalErr(pkg) # NoErr THEN "done" ELSE "loop"
    /\ UNCHANGED <<pkg, vendor, verr, dir, answers>>

\* One iteration of the loop over pkg.Dependencies.
LoopIteration ==
    /\ pc = "loop"
    /\ idx <= Len(pkg.Dependencies)
    /\ \E ok \in BOOLEAN :
        LET depString == pkg.Dependencies[idx]
            r == PackageFromDep(depString)
            vendorDir == VendorDir(pkg.Local)
            call == CallsEnsurePackage(r.pkg, fetchLog, vendor, vendorDir)
            e == IF call THEN EnsurePackage(vendorDir, r.pkg, ok, vendor)
                 ELSE [err |-> NoErr, vendor |-> vendor]
        IN  /\ parseLog' = Append(parseLog, depString)
            /\ IF r.err # NoErr
               THEN /\ err' = InvalidDepErr(depString, r.err)
                    /\ pc' = "done"
                    /\ UNCHANGED <<fetchLog, vendor, pkg, idx>>
               ELSE /\ fetchLog' = IF call THEN Append(fetchLog, [dep |-> r.pkg, ok |-> ok])
                                   ELSE fetchLog
                    /\ vendor' = e.vendor
                    /\ pkg' = [pkg EXCEPT !.AllDependencies = AllDependenciesAfter(@, r.pkg)]
                    /\ IF e.err # NoErr
                       THEN /\ err' = EnsureErr(r.pkg, e.err)
                            /\ pc' = "done"
                            /\ idx' = idx
                       ELSE /\ err' = err
                            /\ pc' = pc
                            /\ idx' = NextIdx(idx)
    /\ UNCHANGED <<verr, retried, prev, dir, answers>>

\* The loop is over: return nil.
LoopExit ==
    /\ pc = "loop"
    /\ idx > Len(pkg.Dependencies)
    /\ pc' = "done"
    /\ UNCHANGED <<pkg, vendor, idx, err, fetchLog, parseLog, verr, retried, prev, dir, answers>>

\* A call of pkg.Validate() by the user of the package, between resolutions.
CallValidate ==
    /\ pc \in {"idle", "done"}
    /\ verr = "unset"
    /\ verr' = Validate(pkg)
    /\ UNCHANGED <<pkg, vendor, pc, idx, err, fetchLog, parseLog, retried, prev, dir, answers>>

GameMode == <<"g", ".", "p", "w", "n">>
GameModeAmx == <<"g", ".", "a", "m", "x">>

RootFiles == {<<>>, GameMode, GameModeAmx}

NoPrev == [ran |-> FALSE, fetchLog |-> <<>>, err |-> NoErr, vendor |-> {}]
NoDir == {}
NoAnswers == [Entry |-> <<>>, EntryGenerate |-> {}, written |-> FALSE]

\* A package as loaded from its definition file, before any call.
Init ==
    /\ pkg \in [Parent : BOOLEAN, Local : {"", "proj", "gone"},
                Entry : RootFiles, Output : RootFiles,
                Dependencies : StringsUpTo(DepStrings, MaxDeps),
                AllDependencies : {<<>>}]
    /\ vendor = {}
    /\ pc = "idle"
    /\ idx = 1
    /\ err = NoErr
    /\ fetchLog = <<>>
    /\ parseLog = <<>>
    /\ verr = "unset"
    /\ retried = FALSE
    /\ prev = NoPrev
    /\ dir = NoDir
    /\ answers = NoAnswers

Next == EnsureDependencies \/ LoopIteration \/ LoopExit \/ CallValidate

Spec == Init /\ [][Next]_vars

\* A root package in an existing directory, as the resolver is meant to be given.
InitRoot ==
    /\ Init
    /\ pkg.Parent
    /\ pkg.Local = "proj"
    /\ pkg.Entry = GameMode
    /\ pkg.Output = GameModeAmx

\* The loop runs in the calling goroutine and every call of EnsurePackage
\* returns: an iteration that can run does run.
FairSpec == InitRoot /\ [][Next]_vars /\ WF_vars(LoopIteration) /\ WF_vars(LoopExit)

----------------------------------------------------------------------------
(* Init (initialise.go): the prompts and the package definition it writes *)

\* filepath.Ext: the suffix from the last dot of the last element of the path.
Ext(path) ==
    LET dots == {k \in 1..Len(path) :
                    path[k] = "." /\ \A j \in k..Len(path) : path[j] # "/"}
    IN  IF dots = {} THEN <<>>
        ELSE SubSeq(path, CHOOSE k \in dots : \A j \in dots : j <= k, Len(path))

\* strings.TrimSuffix
TrimSuffix(s, suffix) ==
    IF HasSuffix(s, suffix) THEN SubSeq(s, 1, Len(s) - Len(suffix)) ELSE s

ExtPwn == <<".", "p", "w", "n">>
ExtInc == <<".", "i", "n", "c">>
ExtAmx == <<".", "a", "m", "x">>
TestPwn == <<"t", "e", "s", "t", ".", "p", "w", "n">>
TestAmx == <<"t", "e", "s", "t", ".", "a", "m", "x">>

\* The files a directory may hold.
Files == {GameMode,
          <<"s", "/", "m", ".", "p", "w", "n">>,
          <<"l", ".", "i", "n", "c">>,
          <<"r", ".", "t", "x", "t">>}

\* The characters of a free-text answer.
Chars == {"a", "m", "x", ".", "/"}

\* The walk of the directory: the files by extension.
PwnFiles(files) == {f \in files : Ext(f) = ExtPwn}
IncFiles(files) == {f \in files : Ext(f) = ExtInc}

\* The answers survey.Ask can return for the questions Init builds: an entry
\* selected among the .pwn files, or a non-empty selection of .inc files, or
\* a free text that nothing validates.
Answers(files) ==
    IF PwnFiles(files) # {}
    THEN [Entry : PwnFiles(files), EntryGenerate : {{}}, written : {FALSE}]
    ELSE IF IncFiles(files) # {}
    THEN [Entry : {<<>>}, EntryGenerate : SUBSET IncFiles(files) \ {{}}, written : {FALSE}]
    ELSE [Entry : StringsUpTo(Chars, MaxLen), EntryGenerate : {{}}, written : {FALSE}]

\* The Entry and Output of the package Init builds from the answers.
EntryOutput(a) ==
    IF a.Entry # <<>>
    THEN [Entry |-> a.Entry, Output |-> TrimSuffix(a.Entry, Ext(a.Entry)) \o ExtAmx]
    ELSE [Entry |-> TestPwn, Output |-> TestAmx]

\* Init(dir): asks, builds the package and writes its definition.
RookInit ==
    /\ pc = "idle"
    /\ \E a \in Answers(dir) :
        /\ answers' = [a EXCEPT !.written = TRUE]
        /\ pkg' = [Parent |-> TRUE, Local |-> "proj",
                   Entry |-> EntryOutput(a).Entry, Output |-> EntryOutput(a).Output,
                   Dependencies |-> <<>>, AllDependencies |-> <<>>]
    /\ pc' = "done"
    /\ UNCHANGED <<vendor, idx, err, fetchLog, parseLog, verr, retried, prev, dir>>

\* survey.Ask returns an error: Init returns it and writes nothing.
RookInitAskFails ==
    /\ pc = "idle"
    /\ pc' = "done"
    /\ err' = NewErr("AskError", <<"interrupt">>)
    /\ UNCHANGED <<pkg, vendor, idx, fetchLog, parseLog, verr, retried, prev, dir, answers>>

NoPackage == [Parent |-> FALSE, Local |-> "", Entry |-> <<>>, Output |-> <<>>,
              Dependencies |-> <<>>, AllDependencies |-> <<>>]

\* A directory before Init is called on it.
InitDir ==
    /\ dir \in SUBSET Files
    /\ answers = NoAnswers
    /\ pkg = NoPackage
    /\ vendor = {}
    /\ pc = "idle"
    /\ idx = 1
    /\ err = NoErr
    /\ fetchLog = <<>>
    /\ parseLog = <<>>
    /\ verr = "unset"
    /\ retried = FALSE
    /\ prev = NoPrev

NextInit == RookInit \/ RookInitAskFails \/ CallValidate

SpecInit == InitDir /\ [][NextInit]_vars

----------------------------------------------------------------------------
(* The remote repositories the dependency strings name, and the resolver the
   specification describes (a depth-first walk with a visited set); the claims
   below compare the code with it. *)

Meta(depString) == PackageFromDep(depString).pkg

Parses(depString) == PackageFromDep(depString).err = NoErr

\* The dependencies declared by the manifest of a vendored copy: a/b and c/d
\* declare each other, e/f has no manifest.
Manifest(dep) ==
    IF dep = Meta(DepAB) THEN <<DepCD1>>
    ELSE IF dep = Meta(DepCD1) THEN <<DepAB>>
    ELSE <<>>

Range(seq) == {seq[k] : k \in 1..Len(seq)}

\* The closure of the resolver of the specification: parent before child,
\* siblings in declaration order, each resolution key once.
RECURSIVE Visit(_, _)
Visit(deps, visited) ==
    IF deps = <<>> THEN visited
    ELSE IF Meta(Head(deps)) \in Range(visited) THEN Visit(Tail(deps), visited)
    ELSE Visit(Tail(deps),
               Visit(Manifest(Meta(Head(deps))), Append(visited, Meta(Head(deps)))))

\* The dependency graph below the package contains a cycle.
HasCycle(p) ==
    \E d \in Range(Visit(p.Dependencies, <<>>)) : d \in Range(Visit(Manifest(d), <<>>))

LocalOk(p) == p.Local # "" /\ Exists(p.Local)

\* A root package that passes Validate, in a directory that exists.
RootOk(p) == p.Parent /\ LocalOk(p) /\ Validate(p) = "ok"

Called == pc \in {"loop", "done"}

Succeeded == pc = "done" /\ err = NoErr

----------------------------------------------------------------------------
(* Claims *)

\* C1: Validate returns MissingEntry when Entry is empty, MissingOutput when
\* Entry is set and Output is empty, EntryEqualsOutput when both are set and
\* equal, and no error when both are set and differ.
C1_ValidateContract ==
    verr # "unset" =>
        /\ pkg.Entry = <<>> => verr = "MissingEntry"
        /\ (pkg.Entry # <<>> /\ pkg.Output = <<>>) => verr = "MissingOutput"
        /\ (pkg.Entry # <<>> /\ pkg.Output # <<>> /\ pkg.Entry = pkg.Output)
               => verr = "EntryEqualsOutput"
        /\ (pkg.Entry # <<>> /\ pkg.Output # <<>> /\ pkg.Entry # pkg.Output)
               => verr = "ok"

C1_Witness == verr = "EntryEqualsOutput" /\ pkg.Entry = GameMode /\ pkg.Output = GameMode

\* C2 as stated: a call on a manifest that is not the root, or whose local path
\* is unset or missing, ends at once with NotALocalPackage, having fetched and
\* parsed nothing.
C2_Original ==
    (Called /\ (~pkg.Parent \/ ~LocalOk(pkg))) =>
        /\ pc = "done"
        /\ err.kind = "NotALocalPackage"
        /\ fetchLog = <<>>
        /\ parseLog = <<>>

\* C2 as amended: a call on a manifest whose local path is unset or missing
\* ends at once with NotALocalPackage, having fetched and parsed nothing,
\* whether or not the manifest is the root.
C2_Amended ==
    (Called /\ ~LocalOk(pkg)) =>
        /\ pc = "done"
        /\ err.kind = "NotALocalPackage"
        /\ fetchLog = <<>>
        /\ parseLog = <<>>

C2_Witness ==
    /\ pc = "done"
    /\ pkg.Local = "gone"
    /\ Len(pkg.Dependencies) = MaxDeps
    /\ \A k \in 1..MaxDeps : Parses(pkg.Dependencies[k])
    /\ err.kind = "NotALocalPackage"

\* C3: dependencies are fetched in declaration order, and a failed fetch is the
\* last fetch of the call, which ends with an error whose text contains the
\* owner/repository of the dependency that failed.
C3_FetchFailFast ==
    /\ Len(fetchLog) <= Len(pkg.Dependencies)
    /\ \A k \in 1..Len(fetchLog) :
        /\ fetchLog[k].dep = Meta(pkg.Dependencies[k])
        /\ ~fetchLog[k].ok =>
              /\ k = Len(fetchLog)
              /\ pc = "done"
              /\ err # NoErr
              /\ Contains(err.text, Flatten(<<fetchLog[k].dep.User, <<"/">>, fetchLog[k].dep.Repo>>))

C3_Witness ==
    /\ pc = "done"
    /\ Len(pkg.Dependencies) = 3
    /\ \A k \in 1..3 : Parses(pkg.Dependencies[k])
    /\ Len(fetchLog) = 2
    /\ fetchLog[1].ok
    /\ ~fetchLog[2].ok
    /\ err.kind = "FetchError"

\* C4: a reference that does not parse is the last one the call reads; the call
\* ends with an error whose text contains that reference string, and only the
\* references before it were fetched.
C4_ParseFailFast ==
    \A k \in 1..Len(parseLog) :
        /\ parseLog[k] = pkg.Dependencies[k]
        /\ ~Parses(parseLog[k]) =>
              /\ k = Len(parseLog)
              /\ pc = "done"
              /\ err # NoErr
              /\ Contains(err.text, parseLog[k])
              /\ Len(fetchLog) = k - 1

C4_Witness ==
    /\ pc = "done"
    /\ Len(pkg.Dependencies) = 3
    /\ Parses(pkg.Dependencies[1])
    /\ ~Parses(pkg.Dependencies[2])
    /\ Parses(pkg.Dependencies[3])
    /\ Len(fetchLog) = 1
    /\ err.kind = "MalformedReference"

C8_Original ==
    (Called /\ pkg.Parent /\ Validate(pkg) # "ok") =>
        /\ pc = "done"
        /\ err.kind = "ValidationError"
        /\ fetchLog = <<>>

\* C8 as amended: a call does not validate: on a manifest that fails
\* validation it returns no validation error, and it succeeds, having
\* fetched every declared reference, when the path is local, the references
\* parse and the fetches succeed.
C8_Amended ==
    Validate(pkg) # "ok" =>
        /\ err.kind # "ValidationError"
        /\ (/\ pc = "done"
            /\ LocalOk(pkg)
            /\ \A k \in 1..Len(pkg.Dependencies) : Parses(pkg.Dependencies[k])
            /\ \A k \in 1..Len(fetchLog) : fetchLog[k].ok)
           => (err = NoErr /\ Len(fetchLog) = Len(pkg.Dependencies))

C8_Witness ==
    /\ Succeeded
    /\ pkg.Parent
    /\ pkg.Entry = <<>>
    /\ verr = "MissingEntry"
    /\ Len(fetchLog) = 2

\* The call before this one stopped at the fetch of the second declared
\* reference, having vendored the first.
AbortedAtSecond ==
    /\ RootOk(pkg)
    /\ retried
    /\ prev.ran
    /\ Len(prev.fetchLog) = 2
    /\ prev.fetchLog[1].ok
    /\ ~prev.fetchLog[2].ok
    /\ Vendored(VendorDir(pkg.Local), prev.fetchLog[1].dep) \in prev.vendor
    /\ Vendored(VendorDir(pkg.Local), prev.fetchLog[2].dep) \notin prev.vendor

\* C9 as stated: the call after such an abort makes no fetch call for the
\* dependency already vendored.
C9_Original ==
    AbortedAtSecond =>
        \A k \in 1..Len(fetchLog) :
            Vendored(VendorDir(pkg.Local), fetchLog[k].dep) \notin prev.vendor

\* C9 as amended: the call after an abort fetches every reference it
\* parses, in declaration order from the first, the one already vendored
\* included.
C9_Amended ==
    retried =>
        \A k \in 1..Len(parseLog) :
            Parses(parseLog[k]) =>
                /\ k <= Len(fetchLog)
                /\ fetchLog[k].dep = Meta(parseLog[k])

C9_Witness ==
    /\ AbortedAtSecond
    /\ Succeeded
    /\ Len(fetchLog) = Len(pkg.Dependencies)
    /\ fetchLog[1].dep = prev.fetchLog[1].dep
    /\ Vendored(VendorDir(pkg.Local), fetchLog[1].dep) \in vendor

\* C10: the package Init writes has an Entry and an Output, both set and
\* different, so that Validate accepts it.
C10_InitWritesValid ==
    answers.written =>
        /\ pkg.Entry # <<>>
        /\ pkg.Output # <<>>
        /\ pkg.Entry # pkg.Output
        /\ verr \in {"unset", "ok"}

====
